---------------------------- MODULE Spec2Model ----------------------------
(***************************************************************************)
(* DFIVModel (src/models/DFIV/model.py): the two-stage least-squares       *)
(* estimator of Deep Feature Instrumental Variable regression.             *)
(*                                                                         *)
(* A tensor is a record [tag, shape, buf]: its shape and its row-major     *)
(* buffer of integers.  An exception is a record [tag |-> "Error", ...]    *)
(* that every later step of the raising call passes on unchanged.          *)
(***************************************************************************)
EXTENDS Integers, Sequences, FiniteSets, TLC

VARIABLES est, last, returned

vars == <<est, last, returned>>

(* ------------------------------ bounds --------------------------------- *)

\* most samples (rows) of a data split
MaxRows == 2
\* widest raw treatment / instrument / covariate input
MaxWidth == 2

\* data patterns of the enumerated inputs: entry (i, j) is (p * (i + j)) % 2
Patterns == {0, 1}
\* ridge penalties: none, and a positive one
Lams == {0, 1}
\* numeric outcomes of a ridge solve: entry (i, j) is s * (1 + (i + j) % 2)
Scales == {0, 1}

(* ------------------------------ values --------------------------------- *)

None == [tag |-> "None"]

\* an attribute that was never assigned (the class body only annotates it)
Unset == [tag |-> "Unset"]

Error(kind, at) == [tag |-> "Error", kind |-> kind, at |-> at]

IsErr(x) == x.tag = "Error"

IsTensor(x) == x.tag = "Tensor"

Tensor(shape, buf) == [tag |-> "Tensor", shape |-> shape, buf |-> buf]

Rows(t) == t.shape[1]

Cols(t) == t.shape[2]

\* entry (i, j) of a 2-D tensor
At(t, i, j) == t.buf[(i - 1) * Cols(t) + j]

\* the row and the column of the k-th entry of a row-major buffer of width w
RowOf(k, w) == ((k - 1) \div w) + 1

ColOf(k, w) == ((k - 1) % w) + 1

RECURSIVE SumSeq(_)
SumSeq(s) == IF s = <<>> THEN 0 ELSE Head(s) + SumSeq(Tail(s))

\* torch.norm(t) ** 2: the sum of the squared entries
SqNorm(t) == SumSeq([k \in 1..Len(t.buf) |-> t.buf[k] * t.buf[k]])

\* a - b, elementwise, of two tensors of one shape
Sub(a, b) ==
    IF a.shape # b.shape THEN Error("shape", "sub")
    ELSE Tensor(a.shape, [k \in 1..Len(a.buf) |-> a.buf[k] - b.buf[k]])

(* --------------------- linear-algebra collaborators -------------------- *)
(* An argument that is itself an exception stands for a call that never    *)
(* happened: the collaborators pass it on.                                  *)

\* add_const_col: a column of ones appended to a feature matrix
AddConstCol(t) ==
    IF IsErr(t) THEN t
    ELSE IF ~IsTensor(t) THEN Error("type", "add_const_col")
    ELSE Tensor(<<Rows(t), Cols(t) + 1>>,
                [k \in 1..(Rows(t) * (Cols(t) + 1)) |->
                    IF ColOf(k, Cols(t) + 1) <= Cols(t)
                    THEN At(t, RowOf(k, Cols(t) + 1), ColOf(k, Cols(t) + 1)) ELSE 1])

\* outer_prod: the per-sample outer product, a 3-D tensor (n, t, c)
OuterProd(a, b) ==
    IF IsErr(a) THEN a
    ELSE IF IsErr(b) THEN b
    ELSE IF ~IsTensor(a) \/ ~IsTensor(b) THEN Error("type", "outer_prod")
    ELSE IF Rows(a) # Rows(b) THEN Error("shape", "outer_prod")
    ELSE Tensor(<<Rows(a), Cols(a), Cols(b)>>,
                [k \in 1..(Rows(a) * Cols(a) * Cols(b)) |->
                    At(a, RowOf(k, Cols(a) * Cols(b)), RowOf(ColOf(k, Cols(a) * Cols(b)), Cols(b)))
                    * At(b, RowOf(k, Cols(a) * Cols(b)), ColOf(k, Cols(b)))])

RECURSIVE Prod(_)
Prod(s) == IF s = <<>> THEN 1 ELSE Head(s) * Prod(Tail(s))

\* torch.flatten(x, start_dim=1): dimensions 1.. merged, the buffer kept
Flatten1(x) ==
    IF IsErr(x) THEN x
    ELSE IF ~IsTensor(x) THEN Error("type", "flatten")
    ELSE Tensor(<<x.shape[1], Prod(Tail(x.shape))>>, x.buf)

\* linear_reg_pred: feature @ weight
LinearRegPred(feature, weight) ==
    IF IsErr(feature) THEN feature
    ELSE IF IsErr(weight) THEN weight
    ELSE IF ~IsTensor(feature) \/ ~IsTensor(weight) THEN Error("type", "linear_reg_pred")
    ELSE IF Cols(feature) # Rows(weight) THEN Error("shape", "linear_reg_pred")
    ELSE Tensor(<<Rows(feature), Cols(weight)>>,
                [e \in 1..(Rows(feature) * Cols(weight)) |->
                    SumSeq([k \in 1..Cols(feature) |->
                              At(feature, RowOf(e, Cols(weight)), k)
                              * At(weight, k, ColOf(e, Cols(weight)))])])

\* entry (i, j) of the matrix a ridge solve of numeric outcome s returns
SolveEntry(s, i, j) == s * (1 + ((i + j) % 2))

\* fit_linear: the ridge solve of feature @ W ~ target.  The Gram matrix
\* feature^T feature + lam * I has no inverse when lam = 0 and the feature
\* matrix has fewer rows than columns.  The solution has one row per feature
\* column and one column per target column; its entries are the solver's,
\* drawn from the family SolveEntry(s, _, _).
FitLinear(target, feature, lam, s) ==
    IF IsErr(target) THEN target
    ELSE IF IsErr(feature) THEN feature
    ELSE IF ~IsTensor(target) \/ ~IsTensor(feature) THEN Error("type", "fit_linear")
    ELSE IF lam = 0 /\ Rows(feature) < Cols(feature) THEN Error("linalg", "fit_linear")
    ELSE IF Rows(target) # Rows(feature) THEN Error("shape", "fit_linear")
    ELSE Tensor(<<Cols(feature), Cols(target)>>,
                [k \in 1..(Cols(feature) * Cols(target)) |->
                    SolveEntry(s, RowOf(k, Cols(target)), ColOf(k, Cols(target)))])

(* ------------------------- feature extractors -------------------------- *)

\* The extractors are opaque nn.Module callables.  Two kinds are enumerated:
\* a pass-through (nn.Identity: the output is the input, whatever it is) and
\* a fixed-width linear layer (nn.Linear(in_dim, out_dim) without bias: a
\* type error on a non-tensor, a shape error on an input of another width).
Identity == [tag |-> "Identity"]

Linear == [tag |-> "Linear", in_dim |-> 2, out_dim |-> 1]

\* the linear layer's weight
NetWeight(net) ==
    Tensor(<<net.in_dim, net.out_dim>>,
           [k \in 1..(net.in_dim * net.out_dim) |->
               1 + ((RowOf(k, net.out_dim) + ColOf(k, net.out_dim)) % 2)])

\* net(x): the module's forward mapping
CallNet(net, x) ==
    IF net.tag = "Identity" THEN x
    ELSE IF ~IsTensor(x) THEN Error("type", "extractor")
    ELSE IF Cols(x) # net.in_dim THEN Error("shape", "extractor")
    ELSE LinearRegPred(x, NetWeight(net))

(* --------------------------- dataset containers ------------------------ *)

\* torch.tensor(a, dtype=torch.float32) of a numpy array
ToTensor(a) ==
    IF a.tag = "ndarray" THEN Tensor(a.shape, a.buf) ELSE Error("type", "torch.tensor")

\* tensor.data.numpy()
ToNumpy(t) == [tag |-> "ndarray", shape |-> t.shape, buf |-> t.buf]

\* the dataset conversion of one field: an absent covariate stays absent
FieldFromNumpy(a) == IF a.tag = "None" THEN None ELSE ToTensor(a)

\* TrainDataSetTorch.from_numpy / TestDataSetTorch.from_numpy: the container
\* of the converted fields, or the exception of the first field that fails
FromNumpy(data) ==
    IF \E f \in DOMAIN data \ {"tag"} : IsErr(FieldFromNumpy(data[f]))
    THEN Error("type", "from_numpy")
    ELSE [f \in DOMAIN data |->
            IF f = "tag" THEN "DataSetTorch" ELSE FieldFromNumpy(data[f])]

(* ------------------------------ DFIVModel ------------------------------ *)

\* DFIVModel.__init__: the weights are annotated in the class, never assigned
NewModel(treatment_net, instrumental_net, covariate_net, a1, a2) ==
    [treatment_net |-> treatment_net,
     instrumental_net |-> instrumental_net,
     covariate_net |-> covariate_net,
     add_stage1_intercept |-> a1,
     add_stage2_intercept |-> a2,
     stage1_weight |-> Unset,
     stage2_weight |-> Unset]

augment_stage1_feature(instrumental_feature, add_stage1_intercept) ==
    IF add_stage1_intercept THEN AddConstCol(instrumental_feature)
    ELSE instrumental_feature

\* a variant of augment_stage2_cross: the covariate is crossed as it is, the
\* intercept column added to the treatment feature only
augment_stage2_cross_bare_covariate(feature, covariate_feature, add_stage2_intercept) ==
    IF IsErr(feature) THEN feature
    ELSE IF covariate_feature = None THEN feature
    ELSE Flatten1(OuterProd(feature, covariate_feature))

\* lines 48-55: the cross term with the covariate, when there is one
augment_stage2_cross(feature, covariate_feature, add_stage2_intercept) ==
    IF IsErr(feature) THEN feature
    ELSE IF covariate_feature = None THEN feature
    ELSE Flatten1(OuterProd(feature,
                            IF add_stage2_intercept THEN AddConstCol(covariate_feature)
                            ELSE covariate_feature))

\* a variant of augment_stage2_feature: the intercept column is added whatever
\* the flag is
augment_stage2_feature_always_intercept(predicted_treatment_feature, covariate_feature, add_stage2_intercept) ==
    augment_stage2_cross(AddConstCol(predicted_treatment_feature),
                         covariate_feature, add_stage2_intercept)

augment_stage2_feature(predicted_treatment_feature, covariate_feature, add_stage2_intercept) ==
    augment_stage2_cross(IF add_stage2_intercept
                         THEN AddConstCol(predicted_treatment_feature)
                         ELSE predicted_treatment_feature,
                         covariate_feature, add_stage2_intercept)

\* lines 84-89: the loss and the returned dict, with the stage-2 feature
\* matrix (the local `feature` of line 78) kept beside it
fit_2sls_result(stage1_weight, predicted_treatment_feature, feature, stage2_weight, resid, lam2) ==
    IF IsErr(resid) THEN resid
    ELSE [tag |-> "dict",
          stage1_weight |-> stage1_weight,
          predicted_treatment_feature |-> predicted_treatment_feature,
          stage2_weight |-> stage2_weight,
          stage2_loss |-> SqNorm(resid) + lam2 * SqNorm(stage2_weight),
          stage2_feature |-> feature]

\* lines 83-84: the stage-2 fitted values and their residual
fit_2sls_loss(outcome_2nd_t, stage1_weight, predicted_treatment_feature, feature, stage2_weight, pred, lam2) ==
    IF IsErr(stage2_weight) THEN stage2_weight
    ELSE IF IsErr(pred) THEN pred
    ELSE fit_2sls_result(stage1_weight, predicted_treatment_feature, feature, stage2_weight,
                         Sub(outcome_2nd_t, pred), lam2)

\* lines 82-83: the stage-2 ridge solve on the stage-2 feature matrix
fit_2sls_stage2(outcome_2nd_t, stage1_weight, predicted_treatment_feature, feature, stage2_weight, lam2) ==
    IF IsErr(feature) THEN feature
    ELSE fit_2sls_loss(outcome_2nd_t, stage1_weight, predicted_treatment_feature, feature,
                       stage2_weight, LinearRegPred(feature, stage2_weight), lam2)

\* lines 77-82: the stage-2 feature matrix, built from the stage-1 projection
fit_2sls_augment(outcome_2nd_t, covariate_2nd_feature, stage1_weight, predicted_treatment_feature, feature, lam2, s2) ==
    IF IsErr(predicted_treatment_feature) THEN predicted_treatment_feature
    ELSE fit_2sls_stage2(outcome_2nd_t, stage1_weight, predicted_treatment_feature, feature,
                         FitLinear(outcome_2nd_t, feature, lam2, s2), lam2)

\* lines 72-80: the stage-1 projection of the second split
fit_2sls_project(instrumental_2nd_feature, covariate_2nd_feature, outcome_2nd_t, stage1_weight, predicted_treatment_feature, lam2, add_stage2_intercept, s2) ==
    IF IsErr(stage1_weight) THEN stage1_weight
    ELSE fit_2sls_augment(outcome_2nd_t, covariate_2nd_feature, stage1_weight,
                          predicted_treatment_feature,
                          augment_stage2_feature(predicted_treatment_feature,
                                                 covariate_2nd_feature, add_stage2_intercept),
                          lam2, s2)

\* lines 68-75: the stage-1 ridge solve on the first split
fit_2sls_stage1(instrumental_2nd_feature, covariate_2nd_feature, outcome_2nd_t, stage1_weight, lam2, add_stage1_intercept, add_stage2_intercept, s2) ==
    fit_2sls_project(instrumental_2nd_feature, covariate_2nd_feature, outcome_2nd_t,
                     stage1_weight,
                     LinearRegPred(augment_stage1_feature(instrumental_2nd_feature,
                                                          add_stage1_intercept),
                                   stage1_weight),
                     lam2, add_stage2_intercept, s2)

\* a variant of fit_2sls: stage 2 is fitted on the raw first-split treatment
\* feature, not on the stage-1 projection
fit_2sls_raw_treatment(treatment_1st_feature, instrumental_1st_feature, instrumental_2nd_feature, covariate_2nd_feature, outcome_2nd_t, lam1, lam2, add_stage1_intercept, add_stage2_intercept, s1, s2) ==
    fit_2sls_project(instrumental_2nd_feature, covariate_2nd_feature, outcome_2nd_t,
                     FitLinear(treatment_1st_feature,
                               augment_stage1_feature(instrumental_1st_feature,
                                                      add_stage1_intercept),
                               lam1, s1),
                     treatment_1st_feature,
                     lam2, add_stage2_intercept, s2)

\* fit_2sls; s1 and s2 are the numeric outcomes of the two ridge solves
fit_2sls(treatment_1st_feature, instrumental_1st_feature, instrumental_2nd_feature, covariate_2nd_feature, outcome_2nd_t, lam1, lam2, add_stage1_intercept, add_stage2_intercept, s1, s2) ==
    fit_2sls_stage1(instrumental_2nd_feature, covariate_2nd_feature, outcome_2nd_t,
                    FitLinear(treatment_1st_feature,
                              augment_stage1_feature(instrumental_1st_feature,
                                                     add_stage1_intercept),
                              lam1, s1),
                    lam2, add_stage1_intercept, add_stage2_intercept, s2)

\* a variant of fit_t_store: a fit that fails leaves the estimator unfitted
fit_t_store_reset(self, res, covariate_2nd_feature) ==
    IF IsErr(res)
    THEN [self |-> [self EXCEPT !.stage1_weight = Unset, !.stage2_weight = Unset],
          out |-> res]
    ELSE [self |-> [self EXCEPT !.stage1_weight = res.stage1_weight,
                                !.stage2_weight = res.stage2_weight],
          out |-> [tag |-> "fitted", res |-> res,
                   covariate_2nd_feature |-> covariate_2nd_feature]]

\* lines 113-114: both weights stored from the one result
fit_t_store(self, res, covariate_2nd_feature) ==
    IF IsErr(res) THEN [self |-> self, out |-> res]
    ELSE [self |-> [self EXCEPT !.stage1_weight = res.stage1_weight,
                                !.stage2_weight = res.stage2_weight],
          out |-> [tag |-> "fitted", res |-> res,
                   covariate_2nd_feature |-> covariate_2nd_feature]]

\* lines 104-114: fit_2sls on the extracted features
fit_t_features(self, treatment_1st_feature, instrumental_1st_feature, instrumental_2nd_feature, covariate_2nd_feature, outcome_2nd_t, lam1, lam2, s1, s2) ==
    IF IsErr(treatment_1st_feature) THEN [self |-> self, out |-> treatment_1st_feature]
    ELSE IF IsErr(instrumental_1st_feature) THEN [self |-> self, out |-> instrumental_1st_feature]
    ELSE IF IsErr(instrumental_2nd_feature) THEN [self |-> self, out |-> instrumental_2nd_feature]
    ELSE IF IsErr(covariate_2nd_feature) THEN [self |-> self, out |-> covariate_2nd_feature]
    ELSE fit_t_store(self,
                     fit_2sls(treatment_1st_feature, instrumental_1st_feature,
                              instrumental_2nd_feature, covariate_2nd_feature, outcome_2nd_t,
                              lam1, lam2, self.add_stage1_intercept,
                              self.add_stage2_intercept, s1, s2),
                     covariate_2nd_feature)

\* fit_t: [self |-> the estimator after the call, out |-> what the call gave]
fit_t(self, train_1st_data_t, train_2nd_data_t, lam1, lam2, s1, s2) ==
    fit_t_features(self,
                   CallNet(self.treatment_net, train_1st_data_t.treatment),
                   CallNet(self.instrumental_net, train_1st_data_t.instrumental),
                   CallNet(self.instrumental_net, train_2nd_data_t.instrumental),
                   IF self.covariate_net # None
                   THEN CallNet(self.covariate_net, train_2nd_data_t.covariate)
                   ELSE None,
                   train_2nd_data_t.outcome, lam1, lam2, s1, s2)

\* line 119: fit_t on the converted splits
fit_converted(self, train_1st_data_t, train_2nd_data_t, lam1, lam2, s1, s2) ==
    IF IsErr(train_1st_data_t) THEN [self |-> self, out |-> train_1st_data_t]
    ELSE IF IsErr(train_2nd_data_t) THEN [self |-> self, out |-> train_2nd_data_t]
    ELSE fit_t(self, train_1st_data_t, train_2nd_data_t, lam1, lam2, s1, s2)

fit(self, train_1st_data, train_2nd_data, lam1, lam2, s1, s2) ==
    fit_converted(self, FromNumpy(train_1st_data), FromNumpy(train_2nd_data),
                  lam1, lam2, s1, s2)

\* the truth value of a module reference (line 124); a module is true unless
\* it defines a length of zero
Truthy(net) == net # None

\* a variant of predict_t_apply: without stored weights the feature matrix
\* itself is returned
predict_t_apply_unchecked(self, feature) ==
    IF IsErr(feature) THEN feature
    ELSE IF self.stage2_weight = Unset THEN feature
    ELSE LinearRegPred(feature, self.stage2_weight)

\* line 130: the stored stage-2 weights applied to the stage-2 feature matrix
predict_t_apply(self, feature) ==
    IF IsErr(feature) THEN feature
    ELSE IF self.stage2_weight = Unset THEN Error("attribute", "stage2_weight")
    ELSE LinearRegPred(feature, self.stage2_weight)

\* a variant of predict_t_features: the treatment feature is replaced by its
\* product with the stored stage-1 weights
predict_t_features_projected(self, treatment_feature, covariate_feature) ==
    IF IsErr(treatment_feature) THEN treatment_feature
    ELSE IF IsErr(covariate_feature) THEN covariate_feature
    ELSE predict_t_apply(self,
                         augment_stage2_feature(
                             LinearRegPred(augment_stage1_feature(treatment_feature,
                                                                  self.add_stage1_intercept),
                                           self.stage1_weight),
                             covariate_feature, self.add_stage2_intercept))

\* a variant of predict_t_features: the feature matrix is built without the
\* intercept column whatever the flag is
predict_t_features_no_intercept(self, treatment_feature, covariate_feature) ==
    IF IsErr(treatment_feature) THEN treatment_feature
    ELSE IF IsErr(covariate_feature) THEN covariate_feature
    ELSE predict_t_apply(self, augment_stage2_feature(treatment_feature, covariate_feature,
                                                      FALSE))

\* lines 127-130: the stage-2 feature matrix of the raw treatment feature
predict_t_features(self, treatment_feature, covariate_feature) ==
    IF IsErr(treatment_feature) THEN treatment_feature
    ELSE IF IsErr(covariate_feature) THEN covariate_feature
    ELSE predict_t_apply(self, augment_stage2_feature(treatment_feature, covariate_feature,
                                                      self.add_stage2_intercept))

\* a variant of predict_t: the call drops the stored stage-1 weights
predict_t_dropping_stage1(self, treatment, covariate) ==
    [self |-> [self EXCEPT !.stage1_weight = Unset],
     out |-> predict_t_features(self,
                                CallNet(self.treatment_net, treatment),
                                IF Truthy(self.covariate_net)
                                THEN CallNet(self.covariate_net, covariate)
                                ELSE None)]

predict_t(self, treatment, covariate) ==
    [self |-> self,
     out |-> predict_t_features(self,
                                CallNet(self.treatment_net, treatment),
                                IF Truthy(self.covariate_net)
                                THEN CallNet(self.covariate_net, covariate)
                                ELSE None)]

\* line 137: the prediction as an array
predict_result(r) ==
    [self |-> r.self, out |-> IF IsErr(r.out) THEN r.out ELSE ToNumpy(r.out)]

\* lines 133-137: predict_t on the converted arguments
predict_converted(self, treatment_t, covariate_t) ==
    IF IsErr(treatment_t) THEN [self |-> self, out |-> treatment_t]
    ELSE IF IsErr(covariate_t) THEN [self |-> self, out |-> covariate_t]
    ELSE predict_result(predict_t(self, treatment_t, covariate_t))

predict(self, treatment, covariate) ==
    predict_converted(self, ToTensor(treatment),
                      IF covariate # None THEN ToTensor(covariate) ELSE None)

\* line 143: the squared norm of the residual over the number of samples,
\* the exact quotient num / den
evaluate_t_score(target, resid) ==
    IF IsErr(resid) THEN resid
    ELSE [tag |-> "Scalar", num |-> SqNorm(resid), den |-> target.shape[1]]

\* lines 142-143: the residual of the prediction against the target
evaluate_t_residual(target, r) ==
    [self |-> r.self,
     out |-> IF IsErr(r.out) THEN r.out ELSE evaluate_t_score(target, Sub(target, r.out))]

\* a variant of evaluate_t: the prediction is scored against the observed
\* outcome
evaluate_t_observed(self, test_data) ==
    evaluate_t_residual(test_data.outcome,
                        predict_t(self, test_data.treatment, test_data.covariate))

evaluate_t(self, test_data) ==
    evaluate_t_residual(test_data.structural,
                        predict_t(self, test_data.treatment, test_data.covariate))

\* line 146: .data.item(), the score as a float
evaluate_result(r) ==
    [self |-> r.self,
     out |-> IF IsErr(r.out) THEN r.out
             ELSE [tag |-> "float", num |-> r.out.num, den |-> r.out.den]]

\* line 146: evaluate_t on the converted test split
evaluate_converted(self, test_data_t) ==
    IF IsErr(test_data_t) THEN [self |-> self, out |-> test_data_t]
    ELSE evaluate_result(evaluate_t(self, test_data_t))

evaluate(self, test_data) == evaluate_converted(self, FromNumpy(test_data))

(* ------------------------------- inputs -------------------------------- *)

\* the n x w tensor of pattern p
Data(n, w, p) ==
    Tensor(<<n, w>>, [k \in 1..(n * w) |-> (p * (RowOf(k, w) + ColOf(k, w))) % 2])

\* a covariate of width c, absent when c = 0
Covariate(n, c, p) == IF c = 0 THEN None ELSE Data(n, c, p)

\* the observed outcome: the structural value plus a confounding shift
Observed(structural) ==
    Tensor(structural.shape, [k \in 1..Len(structural.buf) |-> structural.buf[k] + 1])

\* a training split of n samples (tensor-backed)
TrainData(n, wt, wz, c, p) ==
    [tag |-> "DataSetTorch",
     treatment |-> Data(n, wt, p),
     instrumental |-> Data(n, wz, p),
     covariate |-> Covariate(n, c, p),
     outcome |-> Observed(Data(n, 1, p)),
     structural |-> Data(n, 1, p)]

\* a test split of n samples (tensor-backed)
TestData(n, wt, c, p, ps) ==
    [tag |-> "DataSetTorch",
     treatment |-> Data(n, wt, p),
     covariate |-> Covariate(n, c, p),
     outcome |-> Observed(Data(n, 1, ps)),
     structural |-> Data(n, 1, ps)]

\* the array-backed container of a tensor-backed one, and of a field
AsArray(x) == IF x.tag = "None" THEN None ELSE ToNumpy(x)

AsArrays(data) ==
    [f \in DOMAIN data |-> IF f = "tag" THEN "DataSet" ELSE AsArray(data[f])]

RowCounts == 1..MaxRows

Widths == 1..MaxWidth

CovWidths == 0..MaxWidth

\* the extractors an estimator is constructed with: treatment, instrument,
\* covariate (None: the model has no covariate)
Extractors ==
    { <<Identity, Identity, None>>,
      <<Identity, Identity, Identity>>,
      <<Linear, Identity, Linear>>,
      <<Identity, Linear, None>> }

(* ------------------------------ the machine ---------------------------- *)

\* no call is under way: the caller holds no result
Idle == [op |-> "idle", args |-> None, out |-> None]

Init ==
    /\ \E x \in Extractors, a1 \in BOOLEAN, a2 \in BOOLEAN :
          est = NewModel(x[1], x[2], x[3], a1, a2)
    /\ last = Idle
    /\ returned = None

\* what the latest successful fit_2sls call made by fit_t returned
Returned(r) ==
    IF r.out.tag = "fitted"
    THEN [stage1_weight |-> r.out.res.stage1_weight,
          stage2_weight |-> r.out.res.stage2_weight,
          covariate_2nd_feature |-> r.out.covariate_2nd_feature]
    ELSE returned

\* the sample of MaxRows + 1 rows is split in two: n1 rows and the rest; the
\* treatment and the instrument have one width
FitT ==
    /\ last = Idle
    /\ \E n1 \in RowCounts, w \in Widths, c \in CovWidths,
          lam1 \in Lams, lam2 \in Lams, s \in Scales :
        \E d1 \in {TrainData(n1, w, w, c, 1)},
           d2 \in {TrainData(MaxRows + 1 - n1, w, w, c, 1)} :
          \E r \in {fit_t(est, d1, d2, lam1, lam2, s, s)} :
            /\ est' = r.self
            /\ returned' = Returned(r)
            /\ last' = [op |-> "fit_t",
                        args |-> [train_1st |-> d1, train_2nd |-> d2,
                                  lam1 |-> lam1, lam2 |-> lam2, s1 |-> s, s2 |-> s],
                        out |-> r.out]

Fit ==
    /\ last = Idle
    /\ \E n1 \in RowCounts, w \in Widths, c \in {0, 1} :
        \E d1 \in {AsArrays(TrainData(n1, w, w, c, 1))},
           d2 \in {AsArrays(TrainData(MaxRows + 1 - n1, w, w, c, 1))} :
          \E r \in {fit(est, d1, d2, 1, 1, 1, 1)} :
            /\ est' = r.self
            /\ returned' = Returned(r)
            /\ last' = [op |-> "fit",
                        args |-> [train_1st |-> d1, train_2nd |-> d2,
                                  lam1 |-> 1, lam2 |-> 1, s1 |-> 1, s2 |-> 1],
                        out |-> r.out]

PredictT ==
    /\ last = Idle
    /\ \E n \in RowCounts, wt \in Widths, c \in CovWidths, p \in Patterns :
        \E treatment \in {Data(n, wt, p)}, covariate \in {Covariate(n, c, p)} :
          \E r \in {predict_t(est, treatment, covariate)} :
            /\ est' = r.self
            /\ last' = [op |-> "predict_t",
                        args |-> [treatment |-> treatment, covariate |-> covariate],
                        out |-> r.out]
            /\ UNCHANGED returned

Predict ==
    /\ last = Idle
    /\ \E n \in RowCounts, wt \in Widths, c \in CovWidths :
        \E treatment \in {AsArray(Data(n, wt, 1))},
           covariate \in {AsArray(Covariate(n, c, 1))} :
          \E r \in {predict(est, treatment, covariate)} :
            /\ est' = r.self
            /\ last' = [op |-> "predict",
                        args |-> [treatment |-> treatment, covariate |-> covariate],
                        out |-> r.out]
            /\ UNCHANGED returned

EvaluateT ==
    /\ last = Idle
    /\ \E n \in RowCounts, wt \in Widths, c \in CovWidths, p \in Patterns, ps \in Patterns :
        \E test_data \in {TestData(n, wt, c, p, ps)} :
          \E r \in {evaluate_t(est, test_data)} :
            /\ est' = r.self
            /\ last' = [op |-> "evaluate_t", args |-> [test_data |-> test_data],
                        out |-> r.out]
            /\ UNCHANGED returned

Evaluate ==
    /\ last = Idle
    /\ \E n \in RowCounts, wt \in Widths, c \in CovWidths :
        \E test_data \in {AsArrays(TestData(n, wt, c, 1, 1))} :
          \E r \in {evaluate(est, test_data)} :
            /\ est' = r.self
            /\ last' = [op |-> "evaluate", args |-> [test_data |-> test_data],
                        out |-> r.out]
            /\ UNCHANGED returned

\* the static functions, called on the class: there is no estimator to touch
AugmentStage1 ==
    /\ last = Idle
    /\ \E n \in RowCounts, wz \in Widths, a1 \in BOOLEAN :
        /\ last' = [op |-> "augment_stage1_feature",
                    args |-> [instrumental_feature |-> Data(n, wz, 1),
                              add_stage1_intercept |-> a1],
                    out |-> augment_stage1_feature(Data(n, wz, 1), a1)]
        /\ UNCHANGED <<est, returned>>

AugmentStage2 ==
    /\ last = Idle
    /\ \E n \in RowCounts, m \in RowCounts, wt \in Widths, c \in CovWidths, a2 \in BOOLEAN :
        /\ m \in {n, 1}
        /\ last' = [op |-> "augment_stage2_feature",
                    args |-> [predicted_treatment_feature |-> Data(n, wt, 1),
                              covariate_feature |-> Covariate(m, c, 1),
                              add_stage2_intercept |-> a2],
                    out |-> augment_stage2_feature(Data(n, wt, 1), Covariate(m, c, 1), a2)]
        /\ UNCHANGED <<est, returned>>

Fit2SLS ==
    /\ last = Idle
    /\ \E n \in {MaxRows}, wz1 \in Widths, wz2 \in Widths, c \in {0, 1},
          a1 \in BOOLEAN, a2 \in BOOLEAN :
        \E args \in {[treatment_1st_feature |-> Data(n, 1, 1),
                      instrumental_1st_feature |-> Data(n, wz1, 1),
                      instrumental_2nd_feature |-> Data(n, wz2, 1),
                      covariate_2nd_feature |-> Covariate(n, c, 1),
                      outcome_2nd_t |-> Observed(Data(n, 1, 1)),
                      lam1 |-> 1, lam2 |-> 1,
                      add_stage1_intercept |-> a1, add_stage2_intercept |-> a2,
                      s1 |-> 1, s2 |-> 1]} :
            /\ last' = [op |-> "fit_2sls", args |-> args,
                        out |-> fit_2sls(args.treatment_1st_feature,
                                         args.instrumental_1st_feature,
                                         args.instrumental_2nd_feature,
                                         args.covariate_2nd_feature,
                                         args.outcome_2nd_t, args.lam1, args.lam2,
                                         a1, a2, args.s1, args.s2)]
            /\ UNCHANGED <<est, returned>>

\* the caller takes the result of the call; the next call may start
Return ==
    /\ last # Idle
    /\ last' = Idle
    /\ UNCHANGED <<est, returned>>

Next ==
    \/ FitT
    \/ Fit
    \/ PredictT
    \/ Predict
    \/ EvaluateT
    \/ Evaluate
    \/ AugmentStage1
    \/ AugmentStage2
    \/ Fit2SLS
    \/ Return

Spec == Init /\ [][Next]_vars

(* ---------------------- reading the latest call ------------------------ *)

PredictOps == {"predict_t", "predict"}

EvaluateOps == {"evaluate_t", "evaluate"}

FitOps == {"fit_t", "fit"}

\* both weights are stored
Fitted(e) == e.stage1_weight # Unset /\ e.stage2_weight # Unset

\* the tensor arguments of the latest predict or evaluate call
LastTreatment ==
    CASE last.op = "predict_t" -> last.args.treatment
      [] last.op = "predict" -> ToTensor(last.args.treatment)
      [] last.op = "evaluate_t" -> last.args.test_data.treatment
      [] last.op = "evaluate" -> ToTensor(last.args.test_data.treatment)

LastCovariate ==
    CASE last.op = "predict_t" -> last.args.covariate
      [] last.op = "predict" -> FieldFromNumpy(last.args.covariate)
      [] last.op = "evaluate_t" -> last.args.test_data.covariate
      [] last.op = "evaluate" -> FieldFromNumpy(last.args.test_data.covariate)

LastStructural ==
    CASE last.op = "evaluate_t" -> last.args.test_data.structural
      [] last.op = "evaluate" -> ToTensor(last.args.test_data.structural)

LastObserved ==
    CASE last.op = "evaluate_t" -> last.args.test_data.outcome
      [] last.op = "evaluate" -> ToTensor(last.args.test_data.outcome)

\* the features the extractors of e give for a treatment and a covariate
TreatmentFeature(e, treatment) == CallNet(e.treatment_net, treatment)

CovariateFeature(e, covariate) ==
    IF e.covariate_net # None THEN CallNet(e.covariate_net, covariate) ELSE None

\* the stage-2 feature matrix the latest predict or evaluate call built (an
\* exception when an extractor or the augmentation raised)
LastStage2Feature ==
    augment_stage2_feature(TreatmentFeature(est, LastTreatment),
                           CovariateFeature(est, LastCovariate),
                           est.add_stage2_intercept)

\* the tensor-backed splits of the latest fit call
LastSplit(d) == IF last.op = "fit" THEN FromNumpy(d) ELSE d

\* what the latest fit_2sls invocation was given and, when it returned, gave
LastFit2SLSArgs ==
    IF last.op = "fit_2sls" THEN last.args
    ELSE [treatment_1st_feature |->
              CallNet(est.treatment_net, LastSplit(last.args.train_1st).treatment),
          instrumental_1st_feature |->
              CallNet(est.instrumental_net, LastSplit(last.args.train_1st).instrumental),
          instrumental_2nd_feature |->
              CallNet(est.instrumental_net, LastSplit(last.args.train_2nd).instrumental),
          covariate_2nd_feature |->
              CovariateFeature(est, LastSplit(last.args.train_2nd).covariate),
          outcome_2nd_t |-> LastSplit(last.args.train_2nd).outcome,
          lam1 |-> last.args.lam1, lam2 |-> last.args.lam2,
          add_stage1_intercept |-> est.add_stage1_intercept,
          add_stage2_intercept |-> est.add_stage2_intercept,
          s1 |-> last.args.s1, s2 |-> last.args.s2]

LastFit2SLSReturned ==
    \/ last.op = "fit_2sls" /\ last.out.tag = "dict"
    \/ last.op \in FitOps /\ last.out.tag = "fitted"

LastFit2SLSResult == IF last.op = "fit_2sls" THEN last.out ELSE last.out.res

CovWidth(x) == IF x = None THEN 0 ELSE Cols(x)

(* ------------------------------- claims -------------------------------- *)

\* C1 (as stated): on an estimator whose stage2_weight is unset, every
\* predict, predict_t, evaluate or evaluate_t call ends in the unfitted-model
\* error (the read of the missing attribute), for any input.
C1_UnfittedErrorForAnyInput ==
    (last.op \in PredictOps \cup EvaluateOps /\ est.stage2_weight = Unset)
        => last.out = Error("attribute", "stage2_weight")

\* C1 (amended): on an estimator whose stage2_weight is unset, every predict,
\* predict_t, evaluate or evaluate_t call ends in an exception and returns no
\* prediction or score; the exception is the unfitted-model error whenever
\* the extractors and the stage-2 augmentation succeed on the input, and the
\* extractor's or the augmentation's own exception otherwise.
C1_UnfittedCallFails ==
    (last.op \in PredictOps \cup EvaluateOps /\ est.stage2_weight = Unset)
        => /\ IsErr(last.out)
           /\ ~IsErr(LastStage2Feature) => last.out = Error("attribute", "stage2_weight")
           /\ IsErr(LastStage2Feature) => last.out.kind # "attribute"

C1_Witness ==
    /\ last.op = "predict_t"
    /\ est.stage2_weight = Unset
    /\ est.covariate_net # None
    /\ last.out = Error("attribute", "stage2_weight")

\* C2: the two weights are both unset, or both the pair one fit_2sls
\* invocation returned; a fit or fit_t call that ends in an exception leaves
\* both as they were.
C2_WeightsPaired ==
    \/ est.stage1_weight = Unset /\ est.stage2_weight = Unset /\ returned = None
    \/ /\ returned # None
       /\ est.stage1_weight = returned.stage1_weight
       /\ est.stage2_weight = returned.stage2_weight

C2_FitAllOrNothing ==
    /\ []C2_WeightsPaired
    /\ [][(last'.op \in FitOps /\ IsErr(last'.out))
            => /\ est'.stage1_weight = est.stage1_weight
               /\ est'.stage2_weight = est.stage2_weight]_vars

C2_Witness ==
    /\ last.op = "fit_t"
    /\ last.out = Error("linalg", "fit_linear")
    /\ Fitted(est)

\* C3: in every fit_2sls invocation that returns, the stage-1 weights are the
\* ridge solve on the augmented first-split instrument feature, the treatment
\* feature given to augment_stage2_feature is the augmented second-split
\* instrument feature times those weights, and the stage-2 weights are the
\* ridge solve on the feature matrix built from that projection.
C3_Stage2UsesProjection ==
    LastFit2SLSReturned =>
        /\ LastFit2SLSResult.stage1_weight
             = FitLinear(LastFit2SLSArgs.treatment_1st_feature,
                         augment_stage1_feature(LastFit2SLSArgs.instrumental_1st_feature,
                                                LastFit2SLSArgs.add_stage1_intercept),
                         LastFit2SLSArgs.lam1, LastFit2SLSArgs.s1)
        /\ LastFit2SLSResult.predicted_treatment_feature
             = LinearRegPred(augment_stage1_feature(LastFit2SLSArgs.instrumental_2nd_feature,
                                                    LastFit2SLSArgs.add_stage1_intercept),
                             LastFit2SLSResult.stage1_weight)
        /\ LastFit2SLSResult.stage2_feature
             = augment_stage2_feature(LastFit2SLSResult.predicted_treatment_feature,
                                      LastFit2SLSArgs.covariate_2nd_feature,
                                      LastFit2SLSArgs.add_stage2_intercept)
        /\ LastFit2SLSResult.stage2_weight
             = FitLinear(LastFit2SLSArgs.outcome_2nd_t, LastFit2SLSResult.stage2_feature,
                         LastFit2SLSArgs.lam2, LastFit2SLSArgs.s2)

C3_Witness ==
    /\ last.op = "fit_t"
    /\ last.out.tag = "fitted"
    /\ last.out.covariate_2nd_feature # None
    /\ est.add_stage1_intercept /\ est.add_stage2_intercept
    /\ last.out.res.predicted_treatment_feature
         # TreatmentFeature(est, last.args.train_2nd.treatment)

\* C4: a predict or predict_t call whose covariate is given although the
\* estimator has no covariate extractor, or is None although it has one,
\* ends in an exception and returns no prediction.
C4_CovariateMismatchFails ==
    (last.op \in PredictOps /\ (last.args.covariate = None) # (est.covariate_net = None))
        => IsErr(last.out)

\* C5: augment_stage2_feature of a treatment feature (n, t) and a covariate
\* feature (n, c) is 2-D, has n rows and is t * c wide without the intercept
\* and (t + 1) * (c + 1) wide with it.
C5_CrossFeatureWidth ==
    (/\ last.op = "augment_stage2_feature"
     /\ last.args.covariate_feature # None
     /\ Rows(last.args.covariate_feature) = Rows(last.args.predicted_treatment_feature))
        => /\ IsTensor(last.out)
           /\ last.out.shape
                = << Rows(last.args.predicted_treatment_feature),
                     IF last.args.add_stage2_intercept
                     THEN (Cols(last.args.predicted_treatment_feature) + 1)
                          * (Cols(last.args.covariate_feature) + 1)
                     ELSE Cols(last.args.predicted_treatment_feature)
                          * Cols(last.args.covariate_feature) >>
           /\ Len(last.out.buf) = last.out.shape[1] * last.out.shape[2]

C5_Witness ==
    /\ last.op = "augment_stage2_feature"
    /\ last.args.add_stage2_intercept
    /\ last.args.covariate_feature # None
    /\ IsTensor(last.out)
    /\ Cols(last.args.predicted_treatment_feature) = 2
    /\ Cols(last.args.covariate_feature) = 1
    /\ last.out.shape = <<2, 6>>

\* C6: augment_stage2_feature without a covariate is the treatment feature
\* itself when add_stage2_intercept is false, and the treatment feature with
\* one more column, of ones, when it is true.
C6_NoCovariateNoCross ==
    (last.op = "augment_stage2_feature" /\ last.args.covariate_feature = None)
        => IF last.args.add_stage2_intercept
           THEN /\ IsTensor(last.out)
                /\ last.out.shape = << Rows(last.args.predicted_treatment_feature),
                                       Cols(last.args.predicted_treatment_feature) + 1 >>
                /\ Len(last.out.buf) = last.out.shape[1] * last.out.shape[2]
                /\ \A i \in 1..Rows(last.out) :
                      /\ At(last.out, i, Cols(last.out)) = 1
                      /\ \A j \in 1..Cols(last.args.predicted_treatment_feature) :
                            At(last.out, i, j) = At(last.args.predicted_treatment_feature, i, j)
           ELSE last.out = last.args.predicted_treatment_feature

C6_Witness ==
    /\ last.op = "augment_stage2_feature"
    /\ last.args.covariate_feature = None
    /\ last.args.add_stage2_intercept
    /\ last.out.shape = <<2, 3>>

\* C7: an evaluate or evaluate_t call that returns gives the sum of the
\* squared residuals of predict_t's prediction against the test split's
\* structural field over the number of test samples: 0 when the prediction
\* equals the structural target on every sample.
C7_EvaluateIsStructuralMSE ==
    (last.op \in EvaluateOps /\ ~IsErr(last.out))
        => /\ last.out.num
                = SqNorm(Sub(LastStructural, predict_t(est, LastTreatment, LastCovariate).out))
           /\ last.out.den = Rows(LastStructural)
           /\ predict_t(est, LastTreatment, LastCovariate).out = LastStructural
                => last.out.num = 0

C7_Witness ==
    /\ last.op = "evaluate_t"
    /\ ~IsErr(last.out)
    /\ last.out.num = 0
    /\ SqNorm(LastStructural) > 0
    /\ LastObserved # LastStructural

\* C8: on a fitted estimator the result of predict and predict_t is the same
\* whatever stage1_weight and add_stage1_intercept are.
Stage1Alternatives ==
    {Unset} \cup {FitLinear(Data(1, w, 1), Data(MaxRows, z, 1), 1, s) :
                    w \in Widths, z \in Widths, s \in {1, 2}}

C8_PredictIgnoresStage1 ==
    (last.op \in PredictOps /\ Fitted(est))
        => \A w1 \in Stage1Alternatives, a1 \in BOOLEAN :
              last.out
                = IF last.op = "predict_t"
                  THEN predict_t([est EXCEPT !.stage1_weight = w1,
                                             !.add_stage1_intercept = a1],
                                 last.args.treatment, last.args.covariate).out
                  ELSE predict([est EXCEPT !.stage1_weight = w1,
                                           !.add_stage1_intercept = a1],
                               last.args.treatment, last.args.covariate).out

C8_Witness ==
    /\ last.op = "predict_t"
    /\ Fitted(est)
    /\ IsTensor(last.out)
    /\ last.args.covariate # None
    /\ est.covariate_net # None
    /\ SqNorm(last.out) > 0

\* C9: a step that is not a fit or fit_t call leaves the estimator as it was;
\* no step changes the extractors or the intercept flags; a fitted estimator
\* stays fitted.
C9_OnlyFitChangesState ==
    [][/\ last'.op \notin FitOps => est' = est
       /\ est'.treatment_net = est.treatment_net
       /\ est'.instrumental_net = est.instrumental_net
       /\ est'.covariate_net = est.covariate_net
       /\ est'.add_stage1_intercept = est.add_stage1_intercept
       /\ est'.add_stage2_intercept = est.add_stage2_intercept
       /\ Fitted(est) => Fitted(est')]_vars

C9_Witness ==
    /\ last.op = "evaluate"
    /\ IsErr(last.out)
    /\ Fitted(est)

\* C10 (as stated): on a fitted estimator, every predict_t call whose
\* covariate is present exactly when the covariate extractor is builds a
\* stage-2 feature matrix as wide as stage2_weight has rows; in every
\* fit_2sls invocation whose stage-1 solve succeeds, stage1_weight has as
\* many rows as the augmented second-split instrument feature has columns.
C10_PredictWidth ==
    (/\ last.op = "predict_t"
     /\ Fitted(est)
     /\ (last.args.covariate = None) = (est.covariate_net = None)
     /\ ~IsErr(LastStage2Feature))
        => Cols(LastStage2Feature) = Rows(est.stage2_weight)

C10_Stage1Rows(sameWidth) ==
    (/\ last.op \in FitOps \cup {"fit_2sls"}
     /\ sameWidth => (~IsErr(LastFit2SLSArgs.instrumental_1st_feature)
                      /\ ~IsErr(LastFit2SLSArgs.instrumental_2nd_feature)
                      /\ Cols(LastFit2SLSArgs.instrumental_1st_feature)
                           = Cols(LastFit2SLSArgs.instrumental_2nd_feature))
     /\ IsTensor(FitLinear(LastFit2SLSArgs.treatment_1st_feature,
                           augment_stage1_feature(LastFit2SLSArgs.instrumental_1st_feature,
                                                  LastFit2SLSArgs.add_stage1_intercept),
                           LastFit2SLSArgs.lam1, LastFit2SLSArgs.s1)))
        => Rows(FitLinear(LastFit2SLSArgs.treatment_1st_feature,
                          augment_stage1_feature(LastFit2SLSArgs.instrumental_1st_feature,
                                                 LastFit2SLSArgs.add_stage1_intercept),
                          LastFit2SLSArgs.lam1, LastFit2SLSArgs.s1))
             = Cols(augment_stage1_feature(LastFit2SLSArgs.instrumental_2nd_feature,
                                           LastFit2SLSArgs.add_stage1_intercept))

=============================================================================
